---- MODULE Spec2Model ----
(***************************************************************************)
(* Model of src/main.py: fetch a docs/ folder from a GitHub tree URL when  *)
(* the local root is missing or empty, collect the text files under root,  *)
(* and combine them into one document with a table of contents.            *)
(*                                                                         *)
(* Strings are sequences of ASCII code points, so that str.lower(), the    *)
(* code-point order used by list.sort and the character classes of the     *)
(* anchor regex are computed as Python computes them.  A path is the       *)
(* sequence of its components (pathlib's parts), relative to root.         *)
(***************************************************************************)
EXTENDS Integers, Sequences, FiniteSets, TLC

(***************************************************************************)
(* Bounds                                                                  *)
(***************************************************************************)
\* at most this many files under root (and in the extracted subdirectory)
MaxFiles == 3

(***************************************************************************)
(* str and pathlib helpers                                                 *)
(***************************************************************************)
\* str.lower() on one ASCII character
LowerChar(c) == IF c \in 65..90 THEN c + 32 ELSE c

\* str.lower()
Lower(s) == [i \in 1..Len(s) |-> LowerChar(s[i])]

\* Python's str comparison a < b: lexicographic by code point
RECURSIVE StrLess(_, _)
StrLess(a, b) ==
    IF Len(b) = 0 THEN FALSE
    ELSE IF Len(a) = 0 THEN TRUE
    ELSE IF a[1] < b[1] THEN TRUE
    ELSE IF a[1] > b[1] THEN FALSE
    ELSE StrLess(Tail(a), Tail(b))

\* "/".join(parts)
RECURSIVE JoinSlash(_)
JoinSlash(p) ==
    IF Len(p) = 0 THEN <<>>
    ELSE IF Len(p) = 1 THEN p[1]
    ELSE p[1] \o <<47>> \o JoinSlash(Tail(p))

\* PurePath.as_posix(): the components joined by "/"; the empty path is ".",
\* and the root of an absolute path ("/" or "//") is its first component
as_posix(p) ==
    IF Len(p) = 0 THEN <<46>>
    ELSE IF p[1] \in {<<47>>, <<47, 47>>} THEN p[1] \o JoinSlash(Tail(p))
    ELSE JoinSlash(p)

\* str.rfind("."), 1-based, 0 when there is no dot
RFindDot(name) ==
    LET dots == {i \in 1..Len(name) : name[i] = 46}
    IN  IF dots = {} THEN 0 ELSE CHOOSE i \in dots : \A j \in dots : j <= i

\* PurePath.suffix: the final dot-delimited suffix of the last component,
\* empty when the name has no dot, starts with its only dot or ends in a dot
suffix(p) ==
    LET name == p[Len(p)]
        i    == RFindDot(name)
    IN  IF 1 < i /\ i < Len(name) THEN SubSeq(name, i, Len(name)) ELSE <<>>

\* str.split("/")
RECURSIVE SplitSlash(_, _)
SplitSlash(s, cur) ==
    IF Len(s) = 0 THEN <<cur>>
    ELSE IF s[1] = 47 THEN <<cur>> \o SplitSlash(Tail(s), <<>>)
    ELSE SplitSlash(Tail(s), Append(cur, s[1]))

\* the number of "/" a string starts with
RECURSIVE LeadingSlashes(_)
LeadingSlashes(s) ==
    IF Len(s) > 0 /\ s[1] = 47 THEN 1 + LeadingSlashes(Tail(s)) ELSE 0

\* PurePosixPath(s): empty and "." components are dropped; a string that
\* starts with "/" is absolute, with root "//" for exactly two slashes
PathOf(s) ==
    LET n     == LeadingSlashes(s)
        comps == SelectSeq(SplitSlash(s, <<>>),
                           LAMBDA c : c # <<>> /\ c # <<46>>)
    IN  IF n = 0 THEN comps
        ELSE IF n = 2 THEN << <<47, 47>> >> \o comps
        ELSE << <<47>> >> \o comps

(***************************************************************************)
(* Program constants                                                       *)
(***************************************************************************)
\* {".md", ".mdx", ".txt"}
DEFAULT_INCLUDE_EXTS ==
    { <<46, 109, 100>>, <<46, 109, 100, 120>>, <<46, 116, 120, 116>> }

\* {".git", ".gitbook", "node_modules", ".DS_Store", "__pycache__"}
DEFAULT_EXCLUDE_DIRS ==
    { <<46, 103, 105, 116>>,
      <<46, 103, 105, 116, 98, 111, 111, 107>>,
      <<110, 111, 100, 101, 95, 109, 111, 100, 117, 108, 101, 115>>,
      <<46, 68, 83, 95, 83, 116, 111, 114, 101>>,
      <<95, 95, 112, 121, 99, 97, 99, 104, 101, 95, 95>> }

\* https://github.com/zama-ai/fhevm/tree/main/docs, as scheme, host and the
\* "/"-separated segments after the host
DEFAULT_GITHUB_TREE_URL ==
    [scheme |-> "https", host |-> "github.com",
     segs |-> << <<122, 97, 109, 97, 45, 97, 105>>, <<102, 104, 101, 118, 109>>,
                 <<116, 114, 101, 101>>, <<109, 97, 105, 110>>,
                 <<100, 111, 99, 115>> >>]

(***************************************************************************)
(* Inputs: the files that may lie under root, the command line, the remote *)
(***************************************************************************)
F_b_md == << <<98, 46, 109, 100>> >>                                 \* b.md
F_B_md == << <<66, 46, 109, 100>> >>                                 \* B.md
F_A_TXT == << <<65, 46, 84, 88, 84>> >>                              \* A.TXT
F_a_c_mdx == << <<97>>, <<99, 46, 109, 100, 120>> >>                 \* a/c.mdx
F_git_hidden_md ==                                          \* .git/hidden.md
    << <<46, 103, 105, 116>>, <<104, 105, 100, 100, 101, 110, 46, 109, 100>> >>
F_a_git_d_md == << <<97>>, <<46, 103, 105, 116>>, <<100, 46, 109, 100>> >>
                                                               \* a/.git/d.md
F_g_rst == << <<103, 46, 114, 115, 116>> >>                          \* g.rst
F_faq ==                                       \* Getting Started/FAQ (v2).md
    << <<71, 101, 116, 116, 105, 110, 103, 32, 83, 116, 97, 114, 116, 101, 100>>,
       <<70, 65, 81, 32, 40, 118, 50, 41, 46, 109, 100>> >>
F_a_paren_n_md == << <<97>>, <<40>>, <<110, 46, 109, 100>> >>        \* a/(/n.md
F_a_sp_b_md == << <<97, 32, 98, 46, 109, 100>> >>                    \* a b.md
F_a_hy_b_md == << <<97, 45, 98, 46, 109, 100>> >>                    \* a-b.md

\* the relative paths a file under root may have
FileUniverse ==
    { F_b_md, F_B_md, F_A_TXT, F_a_c_mdx, F_git_hidden_md, F_a_git_d_md,
      F_g_rst, F_faq, F_a_paren_n_md, F_a_sp_b_md, F_a_hy_b_md }

\* the directory trees root may hold: the sets of at most MaxFiles files
Trees == { t \in SUBSET FileUniverse : Cardinality(t) <= MaxFiles }

\* the bytes of the file at relative path p, already decoded: "# <name>\n\n"
FileBytes(p) == <<35, 32>> \o p[Len(p)] \o <<10, 10>>

\* the values of the repeatable --ext option: absent, "rst", ".RST"
ExtArgs == { <<>>, << <<114, 115, 116>> >>, << <<46, 82, 83, 84>> >> }

\* the values of --github: the default, a tree URL without a subpath
\* (https://github.com/zama-ai/fhevm/tree/main) and a URL that is no tree
\* URL (https://github.com/zama-ai/fhevm/blob/main/docs)
GithubArgs ==
    { DEFAULT_GITHUB_TREE_URL,
      [DEFAULT_GITHUB_TREE_URL EXCEPT
          !.segs = SubSeq(DEFAULT_GITHUB_TREE_URL.segs, 1, 4)],
      [DEFAULT_GITHUB_TREE_URL EXCEPT !.segs[3] = <<98, 108, 111, 98>>] }

\* ZipInfo entries: the filename as its "/"-separated components
ZipDir(comps) == [filename |-> comps, is_dir |-> TRUE]
ZipFile(comps) == [filename |-> comps, is_dir |-> FALSE]

Z_top == <<102, 104, 101, 118, 109, 45, 109, 97, 105, 110>>      \* fhevm-main
Z_docs == <<100, 111, 99, 115>>                                  \* docs
Z_readme == <<82, 69, 65, 68, 77, 69, 46, 109, 100>>             \* README.md

\* what urlopen(zip_url) may give: a network or HTTP error, a body that is
\* no zip, the branch archive with a docs/ folder, or one without it
Responses ==
    { [kind |-> "URLError"],
      [kind |-> "BadZipFile"],
      [kind |-> "zip",
       infolist |-> << ZipDir(<<Z_top>>), ZipFile(<<Z_top, Z_readme>>),
                       ZipDir(<<Z_top, Z_docs>>),
                       ZipFile(<<Z_top, Z_docs>> \o F_b_md),
                       ZipFile(<<Z_top, Z_docs>> \o F_a_c_mdx),
                       ZipFile(<<Z_top, Z_docs>> \o F_g_rst) >>],
      [kind |-> "zip",
       infolist |-> << ZipDir(<<Z_top>>), ZipFile(<<Z_top, Z_readme>>) >>] }

(***************************************************************************)
(* GitHub download helpers                                                 *)
(***************************************************************************)
\* _TREE_URL_RE: ^https?://github\.com/<owner>/<repo>/tree/<branch>(/<subpath>)?$
TREE_URL_RE_match(url) ==
    /\ url.scheme \in {"http", "https"}
    /\ url.host = "github.com"
    /\ Len(url.segs) >= 4
    /\ url.segs[1] # <<>>
    /\ url.segs[2] # <<>>
    /\ url.segs[3] = <<116, 114, 101, 101>>
    /\ url.segs[4] # <<>>

\* str.strip("/") on a "/"-separated string: empty segments at both ends go
RECURSIVE StripSlashes(_)
StripSlashes(segs) ==
    IF Len(segs) = 0 THEN segs
    ELSE IF Head(segs) = <<>> THEN StripSlashes(Tail(segs))
    ELSE IF segs[Len(segs)] = <<>>
         THEN StripSlashes(SubSeq(segs, 1, Len(segs) - 1))
    ELSE segs

\* parse_github_tree_url: (owner, repo, branch, subpath), or ValueError
parse_github_tree_url(url) ==
    IF ~TREE_URL_RE_match(url) THEN [error |-> "ValueError"]
    ELSE [error |-> "none",
          owner |-> url.segs[1], repo |-> url.segs[2], branch |-> url.segs[4],
          subpath |-> StripSlashes(SubSeq(url.segs, 5, Len(url.segs)))]

\* zi.filename.startswith(subdir_prefix), the prefix ending in "/"
StartsWith(comps, prefix) ==
    /\ Len(comps) > Len(prefix)
    /\ SubSeq(comps, 1, Len(prefix)) = prefix

\* the members download_and_extract_subdir_from_zip selects, in archive order
members(infolist, zip_root_prefix, subdir) ==
    LET subdir_prefix == <<zip_root_prefix>> \o subdir
    IN  SelectSeq(infolist,
                  LAMBDA zi : ~zi.is_dir /\ StartsWith(zi.filename, subdir_prefix))

\* the paths, relative to dest, that the first k selected members are written to
Extracted(ms, subdir, k) ==
    { SubSeq(ms[i].filename, Len(subdir) + 2, Len(ms[i].filename)) : i \in 1..k }

\* a needs_download that forgets to look into the directory
needs_download_any_dir(kind, entries) == kind = "absent" \/ kind = "dir"

\* needs_download of ensure_docs_present_from_github: root does not exist,
\* or is a directory with no entries
needs_download(kind, entries) ==
    kind = "absent" \/ (kind = "dir" /\ entries = {})

\* a download that does not create dest before it fetches
mkdir_skipped(kind) == kind

\* dest.mkdir(parents=True, exist_ok=True): dest is a directory afterwards
mkdir(kind) == "dir"

(***************************************************************************)
(* Build helpers                                                           *)
(***************************************************************************)
\* whether path q lies directly (deep = FALSE) or deeper (deep = TRUE) in
\* the directory at relative path d
Below(q, d, deep) ==
    /\ IF deep THEN Len(q) > Len(d) + 1 ELSE Len(q) = Len(d) + 1
    /\ SubSeq(q, 1, Len(d)) = d

\* the dirnames and filenames os.walk yields for directory d of tree t
dirnames(t, d) == { q[Len(d) + 1] : q \in { r \in t : Below(r, d, TRUE) } }
filenames(t, d) == { q[Len(d) + 1] : q \in { r \in t : Below(r, d, FALSE) } }

\* the orders in which os.scandir may list a set of names
Orders(S) ==
    { s \in [1..Cardinality(S) -> S] :
        \A i, j \in 1..Cardinality(S) : i # j => s[i] # s[j] }

\* a walk that prunes nothing
prune_nothing(ds, exclude) == ds

\* dirnames[:] = [d for d in dirnames if d not in exclude_dirs]
prune(ds, exclude) == SelectSeq(ds, LAMBDA d : d \notin exclude)

\* p.suffix.lower() in include_exts
included(p, include) == Lower(suffix(p)) \in include

\* a sort key that forgets .lower()
sort_key_case_sensitive(p) == as_posix(p)

\* the sort key of find_files: p.relative_to(root).as_posix().lower()
sort_key(p) == Lower(as_posix(p))

\* one insertion of a stable ascending sort: p goes after every element
\* whose key is not greater than its own
RECURSIVE InsertByKey(_, _)
InsertByKey(sorted, p) ==
    IF Len(sorted) = 0 THEN <<p>>
    ELSE IF StrLess(sort_key(p), sort_key(sorted[Len(sorted)]))
         THEN Append(InsertByKey(SubSeq(sorted, 1, Len(sorted) - 1), p),
                     sorted[Len(sorted)])
    ELSE Append(sorted, p)

\* out.sort(key=...): list.sort is stable
RECURSIVE list_sort(_)
list_sort(l) ==
    IF Len(l) = 0 THEN <<>>
    ELSE InsertByKey(list_sort(SubSeq(l, 1, Len(l) - 1)), l[Len(l)])

\* the character class [\w\/\-\. ] of md_anchor_from_path, on ASCII
AnchorChar(c) ==
    \/ c \in 48..57 \/ c \in 65..90 \/ c \in 97..122 \/ c = 95
    \/ c = 47 \/ c = 45 \/ c = 46 \/ c = 32

\* an anchor that replaces the spaces before it drops the other characters
\* and forgets .lower()
md_anchor_keep_case(rel_path) ==
    LET s2 == SelectSeq(as_posix(rel_path), AnchorChar)
    IN  [i \in 1..Len(s2) |-> IF s2[i] = 32 THEN 45 ELSE s2[i]]

\* md_anchor_from_path: lowercase, drop the other characters, spaces to "-"
md_anchor_from_path(rel_path) ==
    LET s1 == Lower(as_posix(rel_path))
        s2 == SelectSeq(s1, AnchorChar)
    IN  [i \in 1..Len(s2) |-> IF s2[i] = 32 THEN 45 ELSE s2[i]]

\* make_toc: one entry "- [<rel>](#<anchor>)" per path, in the given order
make_toc(paths) ==
    [i \in 1..Len(paths) |->
        [label |-> as_posix(paths[i]), anchor |-> md_anchor_from_path(paths[i])]]

\* read_text_file: the decoded text of the file
read_text_file(p) == FileBytes(p)

\* str.rstrip(): trailing whitespace removed
RECURSIVE rstrip(_)
rstrip(s) ==
    IF Len(s) > 0 /\ s[Len(s)] \in {32, 9, 10, 13, 11, 12}
    THEN rstrip(SubSeq(s, 1, Len(s) - 1))
    ELSE s

\* build_document: the title, the table of contents and one section per
\* file (rule, heading, anchor marker, attribution, text), then a rule
build_document(fs) ==
    [title |-> "# Zama FHEVM Combined Documentation",
     toc   |-> make_toc(fs),
     body  |-> [i \in 1..Len(fs) |->
                  [heading |-> as_posix(fs[i]),
                   anchor  |-> md_anchor_from_path(fs[i]),
                   from    |-> as_posix(fs[i]),
                   text    |-> rstrip(read_text_file(fs[i]))]]]

\* a file left at the output path by something else
OldDoc == [title |-> "old", toc |-> <<>>, body |-> <<>>]

(***************************************************************************)
(* CLI                                                                     *)
(***************************************************************************)
\* include_exts of main: the defaults plus each --ext value, a "." put in
\* front of it when it has none
effective_include_exts(exts) ==
    DEFAULT_INCLUDE_EXTS \cup
    { IF Len(exts[i]) > 0 /\ exts[i][1] = 46 THEN exts[i] ELSE <<46>> \o exts[i] :
        i \in 1..Len(exts) }

\* exclude_dirs of main
effective_exclude_dirs(no_defaults) ==
    IF no_defaults THEN {} ELSE DEFAULT_EXCLUDE_DIRS

\* a check of root that forgets is_dir()
root_missing_exists_only(kind) == kind = "absent"

\* "not root.exists() or not root.is_dir()" of main
root_missing(kind) == kind = "absent" \/ kind # "dir"

\* a main that forgets the empty case
nothing_to_do_never(fs) == FALSE

\* "if not files" of main
nothing_to_do(fs) == Len(fs) = 0

(***************************************************************************)
(* State                                                                   *)
(***************************************************************************)
VARIABLES
    pc,                  \* position in main: start, check, walk, collected, done
    run,                 \* 1 in the first run of the tool, 2 in a re-run
    rootKind,            \* what is at --root: "absent", "file" or "dir"
    tree,                \* the relative paths of the files under root
    github,              \* args.github
    ext,                 \* args.ext
    no_default_excludes, \* args.no_default_excludes
    outFile,             \* the output path: <<>> when absent, else <<its text>>
    url_parsed,          \* parse_github_tree_url was called in this run
    net_access,          \* urlopen was called in this run
    fetch_error,         \* the exception the fetch step raised, or "none"
    startKind,           \* rootKind when this run started
    startTree,           \* tree when this run started
    outAtStart,          \* outFile when this run started
    include_exts,        \* include_exts of main
    exclude_dirs,        \* exclude_dirs of main
    walkStack,           \* the directories os.walk has still to yield
    out,                 \* out of find_files, before the sort
    visited,             \* the directories os.walk has yielded
    files,               \* what find_files returned
    wrote,               \* out_path.write_text was called in this run
    exit_code,           \* the exit status of the run, -1 while it runs
    prev                 \* the previous run: its tree, whether it wrote, its output

vars ==
    <<pc, run, rootKind, tree, github, ext, no_default_excludes, outFile,
      url_parsed, net_access, fetch_error, startKind, startTree, outAtStart,
      include_exts, exclude_dirs, walkStack, out, visited, files, wrote,
      exit_code, prev>>

args == <<github, ext, no_default_excludes>>
fetchVars == <<url_parsed, net_access, fetch_error>>
startVars == <<startKind, startTree, outAtStart>>
walkVars == <<include_exts, exclude_dirs, walkStack, out, visited, files>>

NoPrev == [tree |-> {}, wrote |-> FALSE, output |-> <<>>]

Init ==
    /\ pc = "start"
    /\ run = 1
    /\ rootKind \in {"absent", "file", "dir"}
    /\ tree \in Trees
    /\ rootKind # "dir" => tree = {}
    /\ github \in GithubArgs
    /\ ext \in ExtArgs
    /\ no_default_excludes \in BOOLEAN
    /\ outFile \in {<<>>, <<OldDoc>>}
    /\ url_parsed = FALSE
    /\ net_access = FALSE
    /\ fetch_error = "none"
    /\ startKind = rootKind
    /\ startTree = tree
    /\ outAtStart = outFile
    /\ include_exts = {}
    /\ exclude_dirs = {}
    /\ walkStack = <<>>
    /\ out = <<>>
    /\ visited = {}
    /\ files = <<>>
    /\ wrote = FALSE
    /\ exit_code = -1
    /\ prev = NoPrev

(***************************************************************************)
(* main, lines 195-200: ensure_docs_present_from_github inside try/except. *)
(* Every exception of the fetch is caught and main goes on.                *)
(***************************************************************************)
FetchStep ==
    /\ pc = "start"
    /\ pc' = "check"
    /\ IF ~needs_download(rootKind, tree)
       THEN /\ url_parsed' = FALSE
            /\ net_access' = FALSE
            /\ fetch_error' = "none"
            /\ UNCHANGED <<rootKind, tree>>
       ELSE LET r == parse_github_tree_url(github)
            IN  IF r.error # "none"
                THEN /\ url_parsed' = TRUE
                     /\ net_access' = FALSE
                     /\ fetch_error' = r.error
                     /\ UNCHANGED <<rootKind, tree>>
                ELSE LET subpath == IF r.subpath = <<>> THEN <<Z_docs>>
                                    ELSE r.subpath
                         zip_root_prefix == r.repo \o <<45>> \o r.branch
                     IN  /\ url_parsed' = TRUE
                         /\ rootKind' = mkdir(rootKind)
                         /\ net_access' = TRUE
                         /\ \E resp \in Responses :
                              IF resp.kind # "zip"
                              THEN /\ fetch_error' = resp.kind
                                   /\ tree' = tree
                              ELSE LET ms == members(resp.infolist,
                                                     zip_root_prefix, subpath)
                                   IN  IF Len(ms) = 0
                                       THEN /\ fetch_error' = "FileNotFoundError"
                                            /\ tree' = tree
                                       ELSE \E k \in 0..Len(ms) :
                                              /\ tree' = tree \cup
                                                   Extracted(ms, subpath, k)
                                              /\ fetch_error' =
                                                   IF k = Len(ms) THEN "none"
                                                   ELSE "OSError"
    /\ UNCHANGED <<run, args, outFile, startVars, walkVars, wrote, exit_code, prev>>

(***************************************************************************)
(* main, lines 202-209: the check of root, then the effective filters.     *)
(***************************************************************************)
CheckRoot ==
    /\ pc = "check"
    /\ IF root_missing(rootKind)
       THEN /\ exit_code' = 1
            /\ pc' = "done"
            /\ UNCHANGED walkVars
       ELSE /\ include_exts' = effective_include_exts(ext)
            /\ exclude_dirs' = effective_exclude_dirs(no_default_excludes)
            /\ walkStack' = << <<>> >>
            /\ out' = <<>>
            /\ visited' = {}
            /\ files' = <<>>
            /\ pc' = "walk"
            /\ UNCHANGED exit_code
    /\ UNCHANGED <<run, rootKind, tree, args, outFile, fetchVars, startVars,
                   wrote, prev>>

(***************************************************************************)
(* find_files, lines 108-117: one iteration of the loop over os.walk, in   *)
(* whatever order the directory lists its entries; the iteration that ends *)
(* the walk is followed by the sort and the return.                        *)
(***************************************************************************)
WalkDir ==
    /\ pc = "walk"
    /\ walkStack # <<>>
    /\ LET dirpath == Head(walkStack)
       IN  \E ds \in Orders(dirnames(tree, dirpath)),
              fns \in Orders(filenames(tree, dirpath)) :
             LET kept  == prune(ds, exclude_dirs)
                 found == SelectSeq([i \in 1..Len(fns) |-> Append(dirpath, fns[i])],
                                    LAMBDA p : included(p, include_exts))
                 rest  == [i \in 1..Len(kept) |-> Append(dirpath, kept[i])]
                            \o Tail(walkStack)
             IN  /\ visited' = visited \cup {dirpath}
                 /\ walkStack' = rest
                 /\ IF Len(rest) = 0
                    THEN /\ files' = list_sort(out \o found)
                         /\ out' = <<>>
                         /\ pc' = "collected"
                    ELSE /\ out' = out \o found
                         /\ pc' = "walk"
                         /\ UNCHANGED files
    /\ UNCHANGED <<run, rootKind, tree, args, outFile, fetchVars, startVars,
                   include_exts, exclude_dirs, wrote, exit_code, prev>>

(***************************************************************************)
(* main, lines 212-218: nothing to do, or build the document and write it. *)
(***************************************************************************)
Finish ==
    /\ pc = "collected"
    /\ IF nothing_to_do(files)
       THEN UNCHANGED <<outFile, wrote>>
       ELSE /\ outFile' = <<build_document(files)>>
            /\ wrote' = TRUE
    /\ exit_code' = 0
    /\ pc' = "done"
    /\ UNCHANGED <<run, rootKind, tree, args, fetchVars, startVars, walkVars, prev>>

(***************************************************************************)
(* The tool is run again with the same command line on what the first run  *)
(* left behind.                                                            *)
(***************************************************************************)
Rerun ==
    /\ pc = "done"
    /\ run = 1
    /\ run' = 2
    /\ pc' = "start"
    /\ prev' = [tree |-> tree, wrote |-> wrote, output |-> outFile]
    /\ url_parsed' = FALSE
    /\ net_access' = FALSE
    /\ fetch_error' = "none"
    /\ startKind' = rootKind
    /\ startTree' = tree
    /\ outAtStart' = outFile
    /\ include_exts' = {}
    /\ exclude_dirs' = {}
    /\ walkStack' = <<>>
    /\ out' = <<>>
    /\ visited' = {}
    /\ files' = <<>>
    /\ wrote' = FALSE
    /\ exit_code' = -1
    /\ UNCHANGED <<rootKind, tree, args, outFile>>

Next == FetchStep \/ CheckRoot \/ WalkDir \/ Finish \/ Rerun

Spec == Init /\ [][Next]_vars

(***************************************************************************)
(* Properties                                                              *)
(***************************************************************************)
Range(q) == { q[i] : i \in 1..Len(q) }

\* p <= q as forward-slash-joined strings compared case-insensitively
CaseInsensitiveLeq(p, q) == ~StrLess(Lower(as_posix(q)), Lower(as_posix(p)))

\* find_files has returned and main has not yet acted on the result
Collected == pc = "collected"

\* the command line leaves both filters at their defaults
DefaultFilters == ext = <<>> /\ ~no_default_excludes

\* root holds exactly b.md, A.TXT and a/c.mdx
ExampleTree == tree = {F_b_md, F_A_TXT, F_a_c_mdx}

\* what find_files returns is a duplicate-free list of files under root,
\* ascending by the case-insensitive relative path
FilesSorted ==
    /\ Range(files) \subseteq tree
    /\ Cardinality(Range(files)) = Len(files)
    /\ \A i, j \in 1..Len(files) :
         i < j => CaseInsensitiveLeq(files[i], files[j])

\* C1 as stated: find_files returns the matching files sorted ascending by
\* the case-insensitive forward-slash relative path, and for the root
\* {b.md, A.TXT, a/c.mdx} with default filters the order is
\* a/c.mdx, A.TXT, b.md.
C1_OrderAsStated ==
    Collected =>
        /\ FilesSorted
        /\ (ExampleTree /\ DefaultFilters) => files = <<F_a_c_mdx, F_A_TXT, F_b_md>>

\* C1 amended: find_files returns the matching files sorted ascending by
\* the case-insensitive forward-slash relative path, and for the root
\* {b.md, A.TXT, a/c.mdx} with default filters the order is
\* A.TXT, a/c.mdx, b.md ("." sorts before "/").
C1_SortedByLowercasePath ==
    Collected =>
        /\ FilesSorted
        /\ (ExampleTree /\ DefaultFilters) => files = <<F_A_TXT, F_a_c_mdx, F_b_md>>

C1_Witness == Collected /\ ExampleTree /\ DefaultFilters /\ Len(files) = 3

\* C2: for a fixed set of files under root the combined document is the same
\* in every run, whatever order the walk lists directories and files in: a
\* second run over the same tree writes what the first run wrote.
C2_SameOutputAcrossRuns ==
    (pc = "done" /\ run = 2 /\ wrote /\ prev.wrote /\ prev.tree = tree)
        => outFile = prev.output

\* C3: when root is a non-empty directory at the call, the fetch step
\* returns successfully without parsing the URL, without network access and
\* without changing the filesystem, whatever the URL and the remote are.
C3_PresentRootIsNoOp ==
    (pc = "check" /\ startKind = "dir" /\ startTree # {}) =>
        /\ ~url_parsed
        /\ ~net_access
        /\ fetch_error = "none"
        /\ rootKind = startKind
        /\ tree = startTree
        /\ outFile = outAtStart

C3_Witness ==
    /\ pc = "check"
    /\ startKind = "dir"
    /\ startTree # {}
    /\ ~TREE_URL_RE_match(github)

\* C4: a run exits non-zero exactly when, after the fetch step, root does
\* not exist or is not a directory; a failed fetch never ends the run, and
\* every other run exits zero, also the one that finds no files.
C4_ExitStatus ==
    /\ pc = "check" => exit_code = -1
    /\ pc = "done" =>
         /\ exit_code \in {0, 1}
         /\ exit_code = 1 <=> rootKind # "dir"

C4_Witness ==
    pc = "done" /\ fetch_error # "none" /\ exit_code = 0 /\ Len(files) = 0

\* C5: when find_files returns no file, main never writes the output path
\* (it keeps its content, or stays absent) and exits zero; the output is
\* written, over whatever was there, exactly when a file was collected.
C5_WriteOnlyWhenFiles ==
    /\ ~wrote => outFile = outAtStart
    /\ wrote => pc = "done" /\ Len(files) > 0 /\ outFile = <<build_document(files)>>
    /\ (pc = "done" /\ visited # {}) =>
         /\ exit_code = 0
         /\ wrote <=> Len(files) > 0

C5_Witness ==
    /\ pc = "done"
    /\ visited # {}
    /\ Len(files) = 0
    /\ outAtStart = <<OldDoc>>
    /\ outFile = <<OldDoc>>
    /\ exit_code = 0

\* the directories of tree t, as paths relative to root (root is <<>>)
AllDirs(t) ==
    {<<>>} \cup UNION { { SubSeq(p, 1, k) : k \in 0..(Len(p) - 1) } : p \in t }

\* C6: the walk never descends into a directory whose name is in
\* exclude_dirs, at any depth: no directory it yields and no file it returns
\* has such a name among its directory components; with an empty exclude
\* set it yields every directory under root.
C6_ExcludedNeverDescended ==
    /\ \A d \in visited : \A k \in 1..Len(d) : d[k] \notin exclude_dirs
    /\ \A i \in 1..Len(files) :
         \A k \in 1..(Len(files[i]) - 1) : files[i][k] \notin exclude_dirs
    /\ (Collected /\ exclude_dirs = {}) => visited = AllDirs(tree)

C6_Witness ==
    /\ Collected
    /\ exclude_dirs = DEFAULT_EXCLUDE_DIRS
    /\ {F_a_git_d_md, F_a_c_mdx, F_git_hidden_md} \subseteq tree
    /\ files = <<F_a_c_mdx>>

\* the files in the directories the walk has yielded
VisitedFiles == { p \in tree : SubSeq(p, 1, Len(p) - 1) \in visited }

\* C7: a visited file is included exactly when its extension, compared
\* case-insensitively, is in the effective include set: the defaults plus
\* every --ext value in whatever letter case it was given, with or without
\* the leading dot.
C7_IncludedIffExtensionMatches ==
    Collected =>
        \A p \in VisitedFiles :
            p \in Range(files) <=>
                \E e \in effective_include_exts(ext) : Lower(suffix(p)) = Lower(e)

\* the anchor as the anchor algorithm words it: the lowercased forward-slash
\* relative path, every character other than a word character, "/", "-",
\* "." or space removed, then each space replaced by "-"
StatedAnchor(p) ==
    LET low  == Lower(as_posix(p))
        kept == SelectSeq(low, LAMBDA c :
                    c \in (48..57) \cup (97..122) \cup {95, 47, 45, 46, 32})
    IN  [i \in 1..Len(kept) |-> IF kept[i] = 32 THEN 45 ELSE kept[i]]

\* "getting-started/faq-v2.md"
FaqAnchor ==
    <<103, 101, 116, 116, 105, 110, 103, 45, 115, 116, 97, 114, 116, 101, 100,
      47, 102, 97, 113, 45, 118, 50, 46, 109, 100>>

\* the written document has one TOC entry and one section per collected
\* file, in collection order, and each file's TOC anchor is its section's
\* anchor and is the stated anchor of its path
TocMatchesBody ==
    LET d == outFile[1]
    IN  /\ Len(d.toc) = Len(files)
        /\ Len(d.body) = Len(files)
        /\ \A i \in 1..Len(files) :
             /\ d.toc[i].label = as_posix(files[i])
             /\ d.body[i].heading = as_posix(files[i])
             /\ d.toc[i].anchor = d.body[i].anchor
             /\ d.toc[i].anchor = StatedAnchor(files[i])
             /\ files[i] = F_faq => d.toc[i].anchor = FaqAnchor

C10_AnchorsDistinct ==
    wrote =>
        \A i, j \in 1..Len(outFile[1].body) :
            i # j => outFile[1].body[i].anchor # outFile[1].body[j].anchor

====
